---- MODULE Spec2Model ----
(***************************************************************************)
(* A model of the Monkey front end of monkey-rs: the token vocabulary      *)
(* (token.rs), the lexer (lexer.rs), the syntax tree with its canonical    *)
(* printer (ast.rs) and the Pratt parser (parser.rs).                      *)
(*                                                                         *)
(* Source text is a TLA+ string, read with Head/Tail as the code reads a   *)
(* Peekable<Chars>.  A TLA+ string cannot hold the character U+0000, so    *)
(* the model writes that one character as NUL (see below); every other     *)
(* character stands for itself.                                            *)
(***************************************************************************)
EXTENDS Integers, Sequences, FiniteSets, TLC

(***************************************************************************)
(* Bounds of the explored inputs.                                          *)
(***************************************************************************)
\* lexer sessions: the text is at most this many fragments of LexFragments
MaxLexFragments == 3
\* lexer sessions: calls made after the text is exhausted
MaxExtraCalls == 2
\* expression inputs: at most this many operands (so one operator fewer)
MaxOperands == 3
\* statement inputs: at most this many statements
MaxStatements == 2
\* conditional inputs: at most this many statements between the braces
MaxBlockStatements == 2
\* number inputs: at most this many zeros before a numeral
MaxLeadingZeros == 2
\* printed programs: at most this many statements
MaxPrinted == 3
\* recovery inputs: at most this many statement texts, failing or not
MaxUnits == 3
\* token inputs: at most this many fragments
MaxTokenFragments == 3
\* reprinted expressions: at most this many operands
MaxReprinted == 2

(***************************************************************************)
(* token.rs: Token.  A token is a record [type, lit]; type is the name of  *)
(* the Rust variant, lit the payload of Ident(String), Int(i64) and        *)
(* Bool(bool) and "" for the others.  An i64 payload is kept as its        *)
(* decimal numeral (what Display and Debug print), so that its width does  *)
(* not depend on the width of the checker's integers.                      *)
(***************************************************************************)
Tok(t) == [type |-> t, lit |-> ""]

TokIdent(name) == [type |-> "Ident", lit |-> name]

TokInt(numeral) == [type |-> "Int", lit |-> numeral]

TokBool(b) == [type |-> "Bool", lit |-> IF b THEN "true" ELSE "false"]

\* Option<Token>::None, as Iterator::next and Peekable::peek return it
None == [type |-> "None", lit |-> ""]

\* token.rs, Token::from_ident
from_ident(ident) ==
    CASE ident = "fn" -> Tok("Function")
      [] ident = "let" -> Tok("Let")
      [] ident = "true" -> TokBool(TRUE)
      [] ident = "false" -> TokBool(FALSE)
      [] ident = "if" -> Tok("If")
      [] ident = "else" -> Tok("Else")
      [] ident = "return" -> Tok("Return")
      [] OTHER -> TokIdent(ident)

\* token.rs, impl Display for Token
TokenDisplay(tok) ==
    CASE tok.type = "Illegal" -> "ILLEGAL"
      [] tok.type = "EOF" -> "EOF"
      [] tok.type \in {"Ident", "Int", "Bool"} -> tok.lit
      [] tok.type = "Assign" -> "="
      [] tok.type = "Plus" -> "+"
      [] tok.type = "Comma" -> ","
      [] tok.type = "Semicolon" -> ";"
      [] tok.type = "LParen" -> "("
      [] tok.type = "RParen" -> ")"
      [] tok.type = "LBrace" -> "{"
      [] tok.type = "RBrace" -> "}"
      [] tok.type = "Bang" -> "!"
      [] tok.type = "Minus" -> "-"
      [] tok.type = "Slash" -> "/"
      [] tok.type = "Asterisk" -> "*"
      [] tok.type = "Lt" -> "<"
      [] tok.type = "Gt" -> ">"
      [] tok.type = "Eq" -> "=="
      [] tok.type = "NotEq" -> "!="
      [] tok.type = "Function" -> "fn"
      [] tok.type = "Let" -> "let"
      [] tok.type = "If" -> "if"
      [] tok.type = "Else" -> "else"
      [] tok.type = "Return" -> "return"

\* token.rs, #[derive(Debug)] on Token, as {:?} prints it.  An identifier
\* holds letters and underscores only, so its quoted form needs no escape.
TokenDebug(tok) ==
    CASE tok.type = "Ident" -> "Ident(\"" \o tok.lit \o "\")"
      [] tok.type \in {"Int", "Bool"} -> tok.type \o "(" \o tok.lit \o ")"
      [] OTHER -> tok.type

(***************************************************************************)
(* lexer.rs: the characters.                                               *)
(***************************************************************************)
\* the character U+0000 ('\0' in lexer.rs), which a TLA+ string cannot hold
NUL == "~"

CharsOf(s) == {SubSeq(s, i, i) : i \in 1..Len(s)}

\* lexer.rs, Lexer::is_letter
LetterChars == CharsOf("abcdefghijklmnopqrstuvwxyzABCDEFGHIJKLMNOPQRSTUVWXYZ_")

\* is_letter taking the digits too (is_ascii_alphanumeric)
is_letter_OrDigit(c) == c \in LetterChars \cup CharsOf("0123456789")

is_letter(c) == c \in LetterChars

\* lexer.rs, Lexer::is_digit
is_digit(c) == c \in CharsOf("0123456789")

\* char::is_whitespace, on the characters a TLA+ string can hold
is_whitespace(c) == c \in {" ", "\t", "\n", "\r", "\f"}

(***************************************************************************)
(* lexer.rs: Lexer.  The state of a Lexer is the text its Peekable<Chars>  *)
(* has not yet yielded.  Every operation returns its value and that text.  *)
(***************************************************************************)
\* lexer.rs, Lexer::skip_whitespace
RECURSIVE skip_whitespace(_)
skip_whitespace(chars) ==
    IF chars # "" /\ is_whitespace(Head(chars))
    THEN skip_whitespace(Tail(chars))
    ELSE chars

\* the loop of read_identifier: the letters at the front of chars
RECURSIVE LetterRun(_)
LetterRun(chars) ==
    IF chars # "" /\ is_letter(Head(chars))
    THEN Head(chars) \o LetterRun(Tail(chars))
    ELSE ""

\* lexer.rs, Lexer::read_identifier; c is the character already taken
read_identifier(c, chars) ==
    LET run == LetterRun(chars)
    IN  [tok |-> from_ident(c \o run),
         chars |-> SubSeq(chars, Len(run) + 1, Len(chars))]

\* the loop of read_number: the digits at the front of chars
RECURSIVE DigitRun(_)
DigitRun(chars) ==
    IF chars # "" /\ is_digit(Head(chars))
    THEN Head(chars) \o DigitRun(Tail(chars))
    ELSE ""

DigitValue(c) ==
    CASE c = "0" -> 0 [] c = "1" -> 1 [] c = "2" -> 2 [] c = "3" -> 3
      [] c = "4" -> 4 [] c = "5" -> 5 [] c = "6" -> 6 [] c = "7" -> 7
      [] c = "8" -> 8 [] c = "9" -> 9

\* a numeral without its leading zeros ("0" for zero)
RECURSIVE StripZeros(_)
StripZeros(num) ==
    IF Len(num) > 1 /\ Head(num) = "0" THEN StripZeros(Tail(num)) ELSE num

\* a <= b for numerals of equal length
RECURSIVE NumeralLeq(_, _)
NumeralLeq(a, b) ==
    IF a = "" THEN TRUE
    ELSE IF Head(a) = Head(b) THEN NumeralLeq(Tail(a), Tail(b))
    ELSE DigitValue(Head(a)) < DigitValue(Head(b))

\* i64::MAX, 2^63 - 1
I64Max == "9223372036854775807"

\* a parse without the overflow check
ParseI64_Unchecked(num) == <<StripZeros(num)>>

\* str::parse::<i64> on a run of decimal digits: <<value>> or <<>> (overflow)
ParseI64(num) ==
    LET n == StripZeros(num)
    IN  IF Len(n) < Len(I64Max) \/ (Len(n) = Len(I64Max) /\ NumeralLeq(n, I64Max))
        THEN <<n>>
        ELSE <<>>

\* lexer.rs, Lexer::read_number; the Option it returns is unwrapped by
\* next_token's unwrap_or(Token::Illegal)
read_number(c, chars) ==
    LET run == DigitRun(chars)
        parsed == ParseI64(c \o run)
    IN  [tok |-> IF parsed = <<>> THEN Tok("Illegal") ELSE TokInt(parsed[1]),
         chars |-> SubSeq(chars, Len(run) + 1, Len(chars))]

\* the single-character arms of next_token
SingleCharToken(c) ==
    CASE c = "+" -> Tok("Plus")
      [] c = "," -> Tok("Comma")
      [] c = ";" -> Tok("Semicolon")
      [] c = "(" -> Tok("LParen")
      [] c = ")" -> Tok("RParen")
      [] c = "{" -> Tok("LBrace")
      [] c = "}" -> Tok("RBrace")
      [] c = "-" -> Tok("Minus")
      [] c = "/" -> Tok("Slash")
      [] c = "*" -> Tok("Asterisk")
      [] c = "<" -> Tok("Lt")
      [] c = ">" -> Tok("Gt")
      [] c = NUL -> Tok("EOF")
      [] OTHER -> Tok("Illegal")

\* lexer.rs, Lexer::next_token
next_token(chars0) ==
    LET chars == skip_whitespace(chars0)
    IN  IF chars = "" THEN [tok |-> Tok("EOF"), chars |-> ""]
        ELSE LET c == Head(chars)
                 rest == Tail(chars)
                 followedByEq == rest # "" /\ Head(rest) = "="
             IN  CASE is_letter(c) -> read_identifier(c, rest)
                   [] is_digit(c) -> read_number(c, rest)
                   [] c = "=" ->
                        IF followedByEq
                        THEN [tok |-> Tok("Eq"), chars |-> Tail(rest)]
                        ELSE [tok |-> Tok("Assign"), chars |-> rest]
                   [] c = "!" ->
                        IF followedByEq
                        THEN [tok |-> Tok("NotEq"), chars |-> Tail(rest)]
                        ELSE [tok |-> Tok("Bang"), chars |-> rest]
                   [] OTHER -> [tok |-> SingleCharToken(c), chars |-> rest]

\* lexer.rs, impl Iterator for Lexer: next
LexerNext(chars) ==
    LET r == next_token(chars)
    IN  [item |-> IF r.tok = Tok("EOF") THEN None ELSE r.tok, chars |-> r.chars]

(***************************************************************************)
(* ast.rs: Identifier, Expression, Statement, Program and their Display.   *)
(* A node is a record whose field node names the Rust variant.             *)
(***************************************************************************)
\* ast.rs, struct Identifier
Identifier(name) == [value |-> name]

\* ast.rs, Identifier::try_from_token: <<identifier>> or <<>>
try_from_token(tok) ==
    IF tok.type = "Ident" THEN <<Identifier(tok.lit)>> ELSE <<>>

ExprIdentifier(ident) == [node |-> "Identifier", ident |-> ident]

ExprIntegerLiteral(numeral) == [node |-> "IntegerLiteral", int |-> numeral]

ExprBoolean(lit) == [node |-> "Boolean", bool |-> lit]

ExprPrefix(operator, right) ==
    [node |-> "Prefix", operator |-> operator, right |-> right]

ExprInfix(left, operator, right) ==
    [node |-> "Infix", left |-> left, operator |-> operator, right |-> right]

\* alternative is an Option: <<>> or <<statement>>
ExprIf(condition, consequence, alternative) ==
    [node |-> "If", condition |-> condition, consequence |-> consequence,
     alternative |-> alternative]

StmtLet(ident, value) == [node |-> "Let", ident |-> ident, value |-> value]

StmtReturn(value) == [node |-> "Return", value |-> value]

StmtExpression(value) == [node |-> "Expression", value |-> value]

StmtBlock(statements) == [node |-> "Block", statements |-> statements]

RECURSIVE ExpressionDisplay(_), StatementDisplay(_), StatementsDisplay(_)

\* Display for Expression writing no parentheses
ExpressionDisplay_NoParentheses(e) ==
    CASE e.node = "Identifier" -> e.ident.value
      [] e.node = "IntegerLiteral" -> e.int
      [] e.node = "Boolean" -> e.bool
      [] e.node = "Prefix" -> TokenDisplay(e.operator) \o ExpressionDisplay(e.right)
      [] e.node = "Infix" ->
            ExpressionDisplay(e.left) \o " " \o TokenDisplay(e.operator)
                \o " " \o ExpressionDisplay(e.right)
      [] e.node = "If" ->
            TokenDisplay(Tok("If")) \o " " \o ExpressionDisplay(e.condition) \o " "
                \o StatementDisplay(e.consequence)
                \o (IF e.alternative = <<>> THEN ""
                    ELSE " " \o TokenDisplay(Tok("Else")) \o " "
                             \o StatementDisplay(e.alternative[1]))

\* ast.rs, impl Display for Expression
ExpressionDisplay(e) ==
    CASE e.node = "Identifier" -> e.ident.value
      [] e.node = "IntegerLiteral" -> e.int
      [] e.node = "Boolean" -> e.bool
      [] e.node = "Prefix" ->
            "(" \o TokenDisplay(e.operator) \o ExpressionDisplay(e.right) \o ")"
      [] e.node = "Infix" ->
            "(" \o ExpressionDisplay(e.left) \o " " \o TokenDisplay(e.operator)
                \o " " \o ExpressionDisplay(e.right) \o ")"
      [] e.node = "If" ->
            TokenDisplay(Tok("If")) \o " " \o ExpressionDisplay(e.condition) \o " "
                \o StatementDisplay(e.consequence)
                \o (IF e.alternative = <<>> THEN ""
                    ELSE " " \o TokenDisplay(Tok("Else")) \o " "
                             \o StatementDisplay(e.alternative[1]))

\* ast.rs, impl Display for Statement
StatementDisplay(st) ==
    CASE st.node = "Let" ->
            TokenDisplay(Tok("Let")) \o " " \o st.ident.value \o " = "
                \o ExpressionDisplay(st.value) \o ";"
      [] st.node = "Return" ->
            TokenDisplay(Tok("Return")) \o " " \o ExpressionDisplay(st.value) \o ";"
      [] st.node = "Expression" -> ExpressionDisplay(st.value)
      [] st.node = "Block" -> "{" \o StatementsDisplay(st.statements) \o "}"

\* the loop `for statement in statements { write!(f, "{}", statement) }`
StatementsDisplay(statements) ==
    IF statements = <<>> THEN ""
    ELSE StatementDisplay(Head(statements)) \o StatementsDisplay(Tail(statements))

\* ast.rs, impl Display for Program
ProgramDisplay(statements) == StatementsDisplay(statements)

(***************************************************************************)
(* parser.rs: Precedence.  The derived PartialOrd orders the variants by   *)
(* their position in the enum.                                             *)
(***************************************************************************)
Lowest == 0
Equals == 1
LessGreater == 2
Sum == 3
Product == 4
Prefix == 5
Call == 6

\* from_token with `*` and `/` given the precedence of `+` and `-`
from_token_ProductAsSum(tok) ==
    CASE tok.type \in {"Eq", "NotEq"} -> Equals
      [] tok.type \in {"Lt", "Gt"} -> LessGreater
      [] tok.type \in {"Plus", "Minus", "Asterisk", "Slash"} -> Sum
      [] OTHER -> Lowest

\* parser.rs, Precedence::from_token
from_token(tok) ==
    CASE tok.type \in {"Eq", "NotEq"} -> Equals
      [] tok.type \in {"Lt", "Gt"} -> LessGreater
      [] tok.type \in {"Plus", "Minus"} -> Sum
      [] tok.type \in {"Asterisk", "Slash"} -> Product
      [] OTHER -> Lowest

(***************************************************************************)
(* parser.rs: Parser.  Its state is the field lexer, a Peekable<Lexer>:    *)
(* the text the lexer has not read and the slot in which peek() keeps the  *)
(* item it has taken from the lexer and not yet handed out (<<>> when      *)
(* empty, <<item>> otherwise, the item being a token or None).             *)
(***************************************************************************)
NewParser(text) == [chars |-> text, peeked |-> <<>>]

\* Peekable::next on the field lexer
PeekableNext(lx) ==
    IF lx.peeked # <<>>
    THEN [item |-> lx.peeked[1], lexer |-> [chars |-> lx.chars, peeked |-> <<>>]]
    ELSE LET r == LexerNext(lx.chars)
         IN  [item |-> r.item, lexer |-> [chars |-> r.chars, peeked |-> <<>>]]

\* Peekable::peek on the field lexer
PeekablePeek(lx) ==
    IF lx.peeked # <<>>
    THEN [item |-> lx.peeked[1], lexer |-> lx]
    ELSE LET r == LexerNext(lx.chars)
         IN  [item |-> r.item, lexer |-> [chars |-> r.chars, peeked |-> <<r.item>>]]

\* anyhow::Result of a parsing method, with the parser's state when it returned:
\* Ok(val), Err(val) with val the message, or a panic unwinding the call
Ok(val, lx) == [ok |-> TRUE, panic |-> FALSE, val |-> val, lexer |-> lx]

Err(msg, lx) == [ok |-> FALSE, panic |-> FALSE, val |-> msg, lexer |-> lx]

Panic(lx) == [ok |-> FALSE, panic |-> TRUE, val |-> "panic", lexer |-> lx]

\* `let v = value; rest(v)`
With(value, Rest(_)) == Rest(value)

\* the `?` operator, `let v = r?; rest(v)`: an Err (or a panic) leaves the
\* calling method at once, an Ok goes on with what follows
Try(r, Rest(_)) == IF r.ok THEN Rest(r) ELSE r

\* parser.rs, Parser::try_consume_token
try_consume_token(lx, tok) ==
    With(PeekablePeek(lx), LAMBDA p :
        IF p.item = None
        THEN Err("Expected " \o TokenDebug(tok) \o ", got EOF", p.lexer)
        ELSE IF p.item = tok
        THEN Ok(tok, PeekableNext(p.lexer).lexer)
        ELSE Err("Expected " \o TokenDebug(tok) \o ", got " \o TokenDebug(p.item),
                 p.lexer))

\* try_consume_ident taking the token it rejects
try_consume_ident_TakeRejected(lx) ==
    With(PeekablePeek(lx), LAMBDA p :
        IF p.item # None /\ try_from_token(p.item) # <<>>
        THEN Ok(try_from_token(p.item)[1], PeekableNext(p.lexer).lexer)
        ELSE Err("Expected identifier", PeekableNext(p.lexer).lexer))

\* parser.rs, Parser::try_consume_ident
try_consume_ident(lx) ==
    With(PeekablePeek(lx), LAMBDA p :
        IF p.item # None /\ try_from_token(p.item) # <<>>
        THEN Ok(try_from_token(p.item)[1], PeekableNext(p.lexer).lexer)
        ELSE Err("Expected identifier", p.lexer))

\* SkipStatement stopping in front of the `;` instead of taking it
RECURSIVE SkipStatement_KeepSemicolon(_)
SkipStatement_KeepSemicolon(lx) ==
    With(PeekablePeek(lx), LAMBDA p :
        IF p.item = None \/ p.item = Tok("Semicolon")
        THEN p.lexer
        ELSE SkipStatement_KeepSemicolon(PeekableNext(p.lexer).lexer))

\* the loop `for tok in self.lexer.by_ref()` of the let and return parsers:
\* takes items up to and including the first Semicolon or None
RECURSIVE SkipStatement(_)
SkipStatement(lx) ==
    With(PeekableNext(lx), LAMBDA n :
        IF n.item = None \/ n.item = Tok("Semicolon")
        THEN n.lexer
        ELSE SkipStatement(n.lexer))

\* the value both parsers give their statement: Expression::IntegerLiteral(0)
PlaceholderValue == ExprIntegerLiteral("0")

\* parser.rs, Parser::parse_let_statement
parse_let_statement(lx) ==
    Try(try_consume_ident(lx), LAMBDA ident :
    Try(try_consume_token(ident.lexer, Tok("Assign")), LAMBDA assign :
    Ok(StmtLet(ident.val, PlaceholderValue), SkipStatement(assign.lexer))))

\* parser.rs, Parser::parse_return_statement
parse_return_statement(lx) ==
    Ok(StmtReturn(PlaceholderValue), SkipStatement(lx))

RECURSIVE parse_expression(_, _), parse_infix_expression(_, _)
RECURSIVE InfixLoop(_, _, _), ParseGrouped(_), ParseIf(_), ParsePrimary(_, _)

\* parser.rs, Parser::parse_infix_expression; the unwrap panics on None
parse_infix_expression(lx, left) ==
    With(PeekableNext(lx), LAMBDA n :
        IF n.item = None THEN Panic(n.lexer)
        ELSE Try(parse_expression(n.lexer, from_token(n.item)), LAMBDA right :
             Ok(ExprInfix(left, n.item, right.val), right.lexer)))

\* parser.rs, Parser::parse_expression, the Token::LParen arm
ParseGrouped(lx) ==
    Try(parse_expression(lx, Lowest), LAMBDA inner :
    With(PeekablePeek(inner.lexer), LAMBDA p :
        IF p.item = Tok("RParen")
        THEN Ok(inner.val, PeekableNext(p.lexer).lexer)
        ELSE IF p.item = None
        THEN Err("Expected RParen, found EOF", p.lexer)
        ELSE Err("Expected RParen, found " \o TokenDebug(p.item), p.lexer)))

\* parser.rs, Parser::parse_expression, the Token::If arm
ParseIf(lx) ==
    Try(try_consume_token(lx, Tok("LParen")), LAMBDA lparen :
    Try(parse_expression(lparen.lexer, Lowest), LAMBDA condition :
    Try(try_consume_token(condition.lexer, Tok("RParen")), LAMBDA rparen :
    Try(try_consume_token(rparen.lexer, Tok("LBrace")), LAMBDA lbrace :
    Try(parse_expression(lbrace.lexer, Lowest), LAMBDA consequence :
    With(PeekablePeek(consequence.lexer), LAMBDA p :
        IF p.item # Tok("Else")
        THEN Ok(ExprIf(condition.val, StmtExpression(consequence.val), <<>>),
                p.lexer)
        ELSE
    Try(try_consume_token(PeekableNext(p.lexer).lexer, Tok("LBrace")),
        LAMBDA elseLbrace :
    Try(parse_expression(elseLbrace.lexer, Lowest), LAMBDA alternative :
    Ok(ExprIf(condition.val, StmtExpression(consequence.val),
              <<StmtExpression(alternative.val)>>),
       alternative.lexer)))))))))

\* parser.rs, Parser::parse_expression, the loop `while let Some(tok) = peek()`
InfixLoop(lx, expr, precedence) ==
    With(PeekablePeek(lx), LAMBDA p :
        IF p.item # None /\ p.item # Tok("Semicolon")
           /\ precedence < from_token(p.item)
        THEN Try(parse_infix_expression(p.lexer, expr), LAMBDA infix :
             InfixLoop(infix.lexer, infix.val, precedence))
        ELSE Ok(expr, p.lexer))

\* the match with the token unwrapped: no token is a panic, not an Err
ParsePrimary_UnwrapNone(tok, lx) ==
    CASE tok = None -> Panic(lx)
      [] tok.type = "Ident" -> Ok(ExprIdentifier(Identifier(tok.lit)), lx)
      [] tok.type = "Int" -> Ok(ExprIntegerLiteral(tok.lit), lx)
      [] tok.type = "Bool" -> Ok(ExprBoolean(tok.lit), lx)
      [] tok.type \in {"Bang", "Minus"} ->
            Try(parse_expression(lx, Prefix), LAMBDA right :
            Ok(ExprPrefix(tok, right.val), right.lexer))
      [] tok.type = "LParen" -> ParseGrouped(lx)
      [] tok.type = "If" -> ParseIf(lx)
      [] OTHER -> Err("Unexpected token " \o TokenDebug(tok), lx)

\* parser.rs, Parser::parse_expression, the match on the token taken
ParsePrimary(tok, lx) ==
    CASE tok = None -> Err("Unexpected EOF", lx)
      [] tok.type = "Ident" -> Ok(ExprIdentifier(Identifier(tok.lit)), lx)
      [] tok.type = "Int" -> Ok(ExprIntegerLiteral(tok.lit), lx)
      [] tok.type = "Bool" -> Ok(ExprBoolean(tok.lit), lx)
      [] tok.type \in {"Bang", "Minus"} ->
            Try(parse_expression(lx, Prefix), LAMBDA right :
            Ok(ExprPrefix(tok, right.val), right.lexer))
      [] tok.type = "LParen" -> ParseGrouped(lx)
      [] tok.type = "If" -> ParseIf(lx)
      [] OTHER -> Err("Unexpected token " \o TokenDebug(tok), lx)

\* parser.rs, Parser::parse_expression
parse_expression(lx, precedence) ==
    With(PeekableNext(lx), LAMBDA n :
    Try(ParsePrimary(n.item, n.lexer), LAMBDA primary :
    InfixLoop(primary.lexer, primary.val, precedence)))

\* parse_expression_statement leaving the `;` where it is
parse_expression_statement_KeepSemicolon(lx) ==
    Try(parse_expression(lx, Lowest), LAMBDA expression :
    Ok(StmtExpression(expression.val), expression.lexer))

\* parser.rs, Parser::parse_expression_statement
parse_expression_statement(lx) ==
    Try(parse_expression(lx, Lowest), LAMBDA expression :
    With(PeekablePeek(expression.lexer), LAMBDA p :
    Ok(StmtExpression(expression.val),
       IF p.item = Tok("Semicolon") THEN PeekableNext(p.lexer).lexer ELSE p.lexer)))

\* one turn of the loop `while let Some(tok) = self.lexer.peek()` of
\* parse_program, the peeked item being a token: the statement parser's result
ParseStatement(lx) ==
    With(PeekablePeek(lx), LAMBDA p :
        CASE p.item = Tok("Let") ->
                parse_let_statement(PeekableNext(p.lexer).lexer)
          [] p.item = Tok("Return") ->
                parse_return_statement(PeekableNext(p.lexer).lexer)
          [] OTHER -> parse_expression_statement(p.lexer))

\* String's Debug ({:?}): quoted, with " and \ escaped; the messages hold no
\* other character that Debug escapes
RECURSIVE EscapeDebug(_)
EscapeDebug(str) ==
    IF str = "" THEN ""
    ELSE (IF Head(str) \in {"\"", "\\"} THEN "\\" ELSE "") \o Head(str)
            \o EscapeDebug(Tail(str))

StringDebug(str) == "\"" \o EscapeDebug(str) \o "\""

\* Vec<String>'s Debug: [e1, e2, ...]
RECURSIVE JoinDebug(_)
JoinDebug(strs) ==
    IF strs = <<>> THEN ""
    ELSE StringDebug(Head(strs))
            \o (IF Len(strs) > 1 THEN ", " ELSE "") \o JoinDebug(Tail(strs))

VecDebug(strs) == "[" \o JoinDebug(strs) \o "]"

ParserErrorPrefix == "Parser error: "

\* ProgramResult reporting the first message only
ProgramResult_FirstMessage(statements, errs) ==
    IF errs # <<>>
    THEN [kind |-> "Err", error |-> ParserErrorPrefix \o VecDebug(<<errs[1]>>)]
    ELSE [kind |-> "Ok", program |-> statements]

\* parser.rs, Parser::parse_program, after its loop: the value returned
ProgramResult(statements, errs) ==
    IF errs # <<>>
    THEN [kind |-> "Err", error |-> ParserErrorPrefix \o VecDebug(errs)]
    ELSE [kind |-> "Ok", program |-> statements]

\* parser.rs, Parser::parse_program run to its end from the state given: the
\* value returned, or a panic
RECURSIVE RunProgram(_, _, _)
RunProgram(lx, statements, errs) ==
    With(PeekablePeek(lx), LAMBDA p :
        IF p.item = None THEN ProgramResult(statements, errs)
        ELSE With(ParseStatement(p.lexer), LAMBDA r :
             IF r.panic THEN [kind |-> "Panic"]
             ELSE IF r.ok THEN RunProgram(r.lexer, Append(statements, r.val), errs)
             ELSE RunProgram(r.lexer, statements, Append(errs, r.val))))

\* Parser::new(Lexer::new(text)).parse_program()
parse_program(text) == RunProgram(NewParser(text), <<>>, <<>>)

(***************************************************************************)
(* The state.  A behaviour is one session on one text: either a lexer      *)
(* driven call by call (as repl.rs and the lexer's tests drive it), or a   *)
(* parser running parse_program.                                           *)
(***************************************************************************)
VARIABLES
    input,          \* the text given to Lexer::new
    mode,           \* "lexer" or "parser": which session this is
    chars,          \* lexer session: Lexer.input, the text not yet read
    call,           \* lexer session: the last call, [fn, before, value]
    sentinelSeen,   \* lexer session: a call before the last returned EOF/None
    extra,          \* lexer session: calls made on the exhausted text
    lexer,          \* parser session: Parser.lexer
    program,        \* parser session: program.statements of parse_program
    errors,         \* parser session: errors of parse_program
    pc,             \* parser session: "loop", "done" or "panicked"
    result          \* parser session: what parse_program returned

vars == <<input, mode, chars, call, sentinelSeen, extra,
          lexer, program, errors, pc, result>>

lexerVars == <<chars, call, sentinelSeen, extra>>

parserVars == <<lexer, program, errors, pc, result>>

NoCall == [fn |-> "none", before |-> "", value |-> None]

Pending == [kind |-> "Pending"]

\* the text without its last character
Front(text) == SubSeq(text, 1, Len(text) - 1)

\* the concatenations of at most n of the fragments
RECURSIVE Concats(_, _)
Concats(n, fragments) ==
    IF n = 0 THEN {""}
    ELSE LET shorter == Concats(n - 1, fragments)
         IN  shorter \cup {s \o f : s \in shorter, f \in fragments}

\* the state after Lexer::new(text), or after Parser::new(Lexer::new(text))
InitOn(texts, m) ==
    /\ input \in texts
    /\ mode = m
    /\ chars = input
    /\ call = NoCall
    /\ sentinelSeen = FALSE
    /\ extra = 0
    /\ lexer = NewParser(input)
    /\ program = <<>>
    /\ errors = <<>>
    /\ pc = "loop"
    /\ result = Pending

(***************************************************************************)
(* The lexer session.                                                      *)
(***************************************************************************)
Sentinels == {Tok("EOF"), None}

LexerCall(fn, r, value) ==
    /\ mode = "lexer"
    /\ chars # "" \/ extra < MaxExtraCalls
    /\ chars' = r.chars
    /\ call' = [fn |-> fn, before |-> chars, value |-> value]
    /\ sentinelSeen' = (sentinelSeen \/ (call.fn # "none" /\ call.value \in Sentinels))
    /\ extra' = IF chars = "" THEN extra + 1 ELSE extra
    /\ UNCHANGED <<input, mode>>
    /\ UNCHANGED parserVars

\* a call of Lexer::next_token
NextTokenCall == LexerCall("next_token", next_token(chars), next_token(chars).tok)

\* a call of Iterator::next on the Lexer
IteratorNextCall == LexerCall("next", LexerNext(chars), LexerNext(chars).item)

(***************************************************************************)
(* The parser session: parse_program, one turn of its loop per step.       *)
(***************************************************************************)
\* the loop's body: the lookahead is a token
ParseProgramLoop ==
    /\ mode = "parser"
    /\ pc = "loop"
    /\ PeekablePeek(lexer).item # None
    /\ \E r \in {ParseStatement(lexer)} :
           /\ lexer' = r.lexer
           /\ pc' = IF r.panic THEN "panicked" ELSE "loop"
           /\ program' = IF r.ok THEN Append(program, r.val) ELSE program
           /\ errors' = IF ~r.ok /\ ~r.panic THEN Append(errors, r.val) ELSE errors
    /\ UNCHANGED <<input, mode, result>>
    /\ UNCHANGED lexerVars

\* the loop's exit: the lookahead is None, and parse_program returns
ParseProgramReturn ==
    /\ mode = "parser"
    /\ pc = "loop"
    /\ PeekablePeek(lexer).item = None
    /\ lexer' = PeekablePeek(lexer).lexer
    /\ result' = ProgramResult(program, errors)
    /\ pc' = "done"
    /\ UNCHANGED <<input, mode, program, errors>>
    /\ UNCHANGED lexerVars

(***************************************************************************)
(* The printer session: a Program built from nodes, as ast.rs's test       *)
(* builds it, then formatted with `{}`.                                    *)
(***************************************************************************)
\* Program's Display::fmt, called by format!("{}", program)
ProgramFmt ==
    /\ mode = "printer"
    /\ pc = "loop"
    /\ result' = [kind |-> "Printed", text |-> ProgramDisplay(program)]
    /\ pc' = "done"
    /\ UNCHANGED <<input, mode, lexer, program, errors>>
    /\ UNCHANGED lexerVars

(***************************************************************************)
(* The texts explored.                                                     *)
(***************************************************************************)
LexFragments ==
    {"let", "fn", "if", "else", "true", "false", "return", "x", "_", "7",
     " ", "=", "!", ";", "#", NUL}

LexInputs == Concats(MaxLexFragments, LexFragments)

\* an operand, with or without prefix operators
ExprUnits == {"a", "-true", "!5"}

ExprOperators == {"==", "!=", "<", ">", "+", "-", "*", "/"}

\* the expressions of at most n operands
RECURSIVE ExprTexts(_)
ExprTexts(n) ==
    IF n = 0 THEN {}
    ELSE LET shorter == ExprTexts(n - 1)
         IN  ExprUnits \cup shorter
                \cup {e \o " " \o op \o " " \o u :
                          e \in shorter, op \in ExprOperators, u \in ExprUnits}

\* further texts: a literal alone, a group, an unclosed one, a missing operand,
\* two operands in a row, a NUL in the middle, a conditional left open
ExprOthers ==
    {"5", "(a + 5) * a", "(a", "a +", "5 5", "a " \o NUL \o " + 5", "if (a) { 5"}

ExprInputs ==
    {e \o t : e \in ExprTexts(MaxOperands) \cup ExprOthers, t \in {"", ";"}}

\* how a statement begins: a let with its name and `=`, a return, a let that
\* lacks its `=`, or nothing (an expression statement)
StmtHeads == {"let x = ", "let y = ", "return ", "let x ", ""}

\* what follows: an expression, nothing, an operator with no operand, a NUL
StmtBodies == {"5 + 1", "", "+", NUL}

StmtTexts == {h \o b \o t : h \in StmtHeads, b \in StmtBodies, t \in {";", ""}}

\* the texts of at most n statements
RECURSIVE StmtSequences(_)
StmtSequences(n) ==
    IF n = 0 THEN {""}
    ELSE LET shorter == StmtSequences(n - 1)
         IN  StmtTexts \cup shorter
                \cup {s \o " " \o st : s \in shorter \ {""}, st \in StmtTexts}

StmtInputs == StmtSequences(MaxStatements)

CondConditions == {"5 < 10", "a + 5 * a"}

BlockStatements == {"x", "x;", "let x = 5;", "return x;"}

\* the texts of at most n statements of a block
RECURSIVE BlockBodies(_)
BlockBodies(n) ==
    IF n = 0 THEN {""}
    ELSE LET shorter == BlockBodies(n - 1)
         IN  shorter \cup {b \o " " \o st : b \in shorter, st \in BlockStatements}

\* `if (<cond>) {<body> }`
IfText(cond, body) == "if (" \o cond \o ") {" \o body \o " }"

\* `if (<cond>) {<body> } else {<body> }`
IfElseText(cond, body, other) == IfText(cond, body) \o " else {" \o other \o " }"

\* the conditionals, and each without its last `}`
CondInputs ==
    LET bodies == BlockBodies(MaxBlockStatements)
        closed == {IfText(c, b) : c \in CondConditions, b \in bodies}
                    \cup {IfElseText(c, b, o) :
                            c \in CondConditions, b \in bodies, o \in bodies}
    IN  closed \cup {Front(t) : t \in closed}

\* n zeros
RECURSIVE Zeros(_)
Zeros(n) == IF n = 0 THEN "" ELSE "0" \o Zeros(n - 1)

\* numerals around i64::MAX = 9223372036854775807 and 10^19, and small ones
Numerals ==
    {"922337203685477580" \o d : d \in CharsOf("0123456789")}
        \cup {"9223372036854775" \o d \o "07" : d \in CharsOf("789")}
        \cup {"0", "7", "42", "999999999999999999", "10000000000000000000",
              "99999999999999999999", "9223372036854775807000"}

\* a numeral after up to MaxLeadingZeros zeros, inside a text
NumberInputs ==
    {before \o Zeros(z) \o num \o after :
        before \in {"", " ", "x = "},
        z \in 0..MaxLeadingZeros,
        num \in Numerals,
        after \in {"", ";", " 7", "x"}}

\* the statements of test_display_program, and an expression statement
PrintedStatements ==
    {StmtLet(Identifier("myVar"), ExprIntegerLiteral("5")),
     StmtLet(Identifier("anotherVar"), ExprIdentifier(Identifier("myVar"))),
     StmtReturn(ExprIdentifier(Identifier("anotherVar"))),
     StmtExpression(ExprInfix(ExprIdentifier(Identifier("myVar")), Tok("Plus"),
                              ExprIntegerLiteral("5")))}

\* the programs of at most n of these statements
RECURSIVE Programs(_)
Programs(n) ==
    IF n = 0 THEN {<<>>}
    ELSE LET shorter == Programs(n - 1)
         IN  shorter \cup {Append(p, st) : p \in shorter, st \in PrintedStatements}

\* the state after a Program is built
InitPrinter ==
    /\ input = ""
    /\ mode = "printer"
    /\ chars = ""
    /\ call = NoCall
    /\ sentinelSeen = FALSE
    /\ extra = 0
    /\ lexer = NewParser("")
    /\ program \in Programs(MaxPrinted)
    /\ errors = <<>>
    /\ pc = "loop"
    /\ result = Pending

\* statement texts, some well formed and some failing in a statement parser
RecoveryUnits ==
    {"x;", "let x = 5;", "return x;", ")", "let 5;", "let x 5;", "(x;", "if x;"}

\* the sequences of at most n of them
RECURSIVE UnitSequences(_)
UnitSequences(n) ==
    IF n = 0 THEN {<<>>}
    ELSE LET shorter == UnitSequences(n - 1)
         IN  shorter \cup {Append(us, u) : us \in shorter, u \in RecoveryUnits}

\* the text of a sequence of them, a space after each
RECURSIVE UnitsText(_)
UnitsText(units) ==
    IF units = <<>> THEN "" ELSE Head(units) \o " " \o UnitsText(Tail(units))

RecoveryInputs == {UnitsText(us) : us \in UnitSequences(MaxUnits)}

InitRecover == InitOn(RecoveryInputs, "parser")

\* tokens and openings of statements, to be put together in any order
TokenFragments ==
    {"let ", "let x = ", "return ", "x ", "+ ", "- ", "( ", ") ", "; ",
     "if ( x ) { ", NUL}

TokenInputs == Concats(MaxTokenFragments, TokenFragments)

InitTokens == InitOn(TokenInputs, "parser")

\* operands: a name, literals, prefix operators, groups
ReprintedUnits ==
    {"a", "007", "true", "-a", "!!true", "(a + 5)", "-(a * 5)",
     "9223372036854775807"}

\* an operator of each precedence
ReprintedOperators == {"==", "<", "-", "*"}

\* the expressions of at most n of these operands
RECURSIVE ReprintedTexts(_)
ReprintedTexts(n) ==
    IF n = 0 THEN {}
    ELSE LET shorter == ReprintedTexts(n - 1)
         IN  ReprintedUnits \cup shorter
                \cup {e \o " " \o op \o " " \o u :
                          e \in shorter, op \in ReprintedOperators,
                          u \in ReprintedUnits}

\* each alone, behind a `;`, and with a NUL or a let statement after it
ReprintedInputs ==
    {e \o t : e \in ReprintedTexts(MaxReprinted),
              t \in {"", ";", " " \o NUL \o " a", "; let x = 5;"}}

InitReprint == InitOn(ReprintedInputs, "parser")

InitLexer == InitOn(LexInputs, "lexer")

InitNumber == InitOn(NumberInputs, "lexer")

InitCond == InitOn(CondInputs, "parser")

InitStmt == InitOn(StmtInputs, "parser")

InitExpr == InitOn(ExprInputs, "parser")

NextLexer == NextTokenCall \/ IteratorNextCall

NextParser == ParseProgramLoop \/ ParseProgramReturn

NextPrinter == ProgramFmt

SpecLexer == InitLexer /\ [][NextLexer]_vars

SpecNumber == InitNumber /\ [][NextLexer]_vars

SpecExpr == InitExpr /\ [][NextParser]_vars

SpecStmt == InitStmt /\ [][NextParser]_vars

SpecCond == InitCond /\ [][NextParser]_vars

SpecRecover == InitRecover /\ [][NextParser]_vars

SpecReprint == InitReprint /\ [][NextParser]_vars

\* parse_program runs on: its return, when it can be taken, is taken, and so
\* is a turn of its loop.  The second is weak fairness of ParseProgramLoop with
\* its enabling condition written out: the lookahead is a token.
NextParserFair ==
    /\ WF_vars(ParseProgramReturn)
    /\ \/ []<>~(pc = "loop" /\ PeekablePeek(lexer).item # None)
       \/ []<><<ParseProgramLoop>>_vars

SpecTokens == InitTokens /\ [][NextParser]_vars /\ NextParserFair

SpecPrinter == InitPrinter /\ [][NextPrinter]_vars

(***************************************************************************)
(* What the properties below say of a text is said of its tokens: those    *)
(* the lexer yields up to the first end-of-input sentinel.                 *)
(***************************************************************************)
RECURSIVE TokensOf(_)
TokensOf(text) ==
    With(next_token(text), LAMBDA r :
        IF r.tok = Tok("EOF") THEN <<>> ELSE <<r.tok>> \o TokensOf(r.chars))

\* the tokens without the one trailing `;`, if there is one
WithoutTerminator(toks) ==
    IF toks # <<>> /\ toks[Len(toks)] = Tok("Semicolon")
    THEN SubSeq(toks, 1, Len(toks) - 1)
    ELSE toks

IsOperand(tok) == tok.type \in {"Ident", "Int", "Bool"}

IsInfixOperator(tok) ==
    tok.type \in {"Eq", "NotEq", "Lt", "Gt", "Plus", "Minus", "Asterisk", "Slash"}

IsPrefixOperator(tok) == tok.type \in {"Bang", "Minus"}

\* operand (infix operand)*, an operand being an identifier or a literal under
\* any number of prefix operators
RECURSIVE OperatorExpression(_, _)
OperatorExpression(toks, operandNext) ==
    IF operandNext
    THEN /\ toks # <<>>
         /\ \/ IsOperand(Head(toks)) /\ OperatorExpression(Tail(toks), FALSE)
            \/ IsPrefixOperator(Head(toks)) /\ OperatorExpression(Tail(toks), TRUE)
    ELSE \/ toks = <<>>
         \/ IsInfixOperator(Head(toks)) /\ OperatorExpression(Tail(toks), TRUE)

\* how tightly an infix operator binds: Equals < LessGreater < Sum < Product
Binding(tok) ==
    CASE tok.type \in {"Eq", "NotEq"} -> 1
      [] tok.type \in {"Lt", "Gt"} -> 2
      [] tok.type \in {"Plus", "Minus"} -> 3
      [] tok.type \in {"Asterisk", "Slash"} -> 4

\* the positions of the infix operators: an operator that follows an operand
InfixPositions(toks) ==
    {i \in 2..Len(toks) : IsInfixOperator(toks[i]) /\ IsOperand(toks[i - 1])}

\* the fully parenthesized form of an operator expression: it splits at the
\* loosest infix operator, at the last of them when there are several; with
\* no infix operator left, a prefix operator applies to what follows it
RECURSIVE Parenthesized(_)
Parenthesized(toks) ==
    IF InfixPositions(toks) # {}
    THEN LET i == CHOOSE i \in InfixPositions(toks) :
                    \A j \in InfixPositions(toks) :
                        \/ Binding(toks[j]) > Binding(toks[i])
                        \/ Binding(toks[j]) = Binding(toks[i]) /\ j <= i
         IN  "(" \o Parenthesized(SubSeq(toks, 1, i - 1)) \o " "
                 \o TokenDisplay(toks[i]) \o " "
                 \o Parenthesized(SubSeq(toks, i + 1, Len(toks))) \o ")"
    ELSE IF Len(toks) = 1 THEN TokenDisplay(toks[1])
    ELSE "(" \o TokenDisplay(toks[1]) \o Parenthesized(Tail(toks)) \o ")"

\* C1: a text that is one operator expression (identifiers, integer and boolean
\* literals, the eight infix and the two prefix operators, with or without a
\* trailing `;`) parses, and the program prints as the fully parenthesized
\* form in which a tighter operator binds first and operators of equal
\* precedence group to the left.
C1_PrecedencePrinting ==
    (pc = "done" /\ OperatorExpression(WithoutTerminator(TokensOf(input)), TRUE))
    => /\ result.kind = "Ok"
       /\ ProgramDisplay(result.program)
            = Parenthesized(WithoutTerminator(TokensOf(input)))

\* C1's case: three operands, two precedences and both prefix operators, parsed
C1_Witness ==
    /\ pc = "done"
    /\ input = "a + -true * !5;"
    /\ result.kind = "Ok"
    /\ ProgramDisplay(result.program) = "(a + ((-true) * (!5)))"

EndsWithSemicolon(text) == text # "" /\ SubSeq(text, Len(text), Len(text)) = ";"

\* the text e of an input that is e or e;
Unterminated(text) == IF EndsWithSemicolon(text) THEN Front(text) ELSE text

\* the expression parser accepted the text and has then read all of it
ReadWhole(r) ==
    /\ r.ok
    /\ With(PeekablePeek(r.lexer), LAMBDA p : p.item = None /\ p.lexer.chars = "")

\* e parses: the expression parser accepts it and has then read all of it
ExpressionParses(e) == ReadWhole(parse_expression(NewParser(e), Lowest))

\* the other form of the text: e; for e, and e for e;.  The result in the
\* state is that of the text itself.
OtherForm(text) == IF EndsWithSemicolon(text) THEN Front(text) ELSE text \o ";"

\* C8: for an expression e that parses, parse_program gives on e and on e; the
\* same program, of exactly one ExpressionStatement holding e; the `;` is taken
\* when it is there, so that the whole text has been read.
C8_OptionalTerminator ==
    pc = "done"
    => With(parse_expression(NewParser(Unterminated(input)), Lowest), LAMBDA e :
         ReadWhole(e)
         => /\ result.kind = "Ok"
            /\ Len(result.program) = 1
            /\ result.program[1] = StmtExpression(e.val)
            /\ parse_program(OtherForm(input)) = result
            /\ lexer.chars = "")

\* C8's case: "5;" has been parsed, to the program that "5" gives
C8_Witness ==
    /\ pc = "done"
    /\ input = "5;"
    /\ Len(result.program) = 1
    /\ ProgramDisplay(result.program) = "5"
    /\ parse_program("5") = result

\* C9: once a call on the lexer has returned the end-of-input sentinel (EOF
\* from next_token, None from the iterator), every later call returns the
\* sentinel too.  (Stated of every text, the NUL character included.)
C9_SentinelIsFinal == sentinelSeen => call.value \in Sentinels

\* the character at position i of the text
CharAt(text, i) == SubSeq(text, i, i)

WhitespaceChars == {" ", "\t", "\n", "\r", "\f"}

WordChars ==
    CharsOf("abcdefghijklmnopqrstuvwxyz") \cup CharsOf("ABCDEFGHIJKLMNOPQRSTUVWXYZ")
        \cup {"_"}

\* the number of whitespace characters the text begins with
LeadingWhitespace(text) ==
    CHOOSE k \in 0..Len(text) :
        /\ \A i \in 1..k : CharAt(text, i) \in WhitespaceChars
        /\ k = Len(text) \/ CharAt(text, k + 1) \notin WhitespaceChars

\* the length of the longest run of letters and underscores the text begins with
LeadingWord(text) ==
    CHOOSE k \in 0..Len(text) :
        /\ \A i \in 1..k : CharAt(text, i) \in WordChars
        /\ k = Len(text) \/ CharAt(text, k + 1) \notin WordChars

\* the text a call was made on, from its first character that is no whitespace
CallText == SubSeq(call.before, LeadingWhitespace(call.before) + 1, Len(call.before))

\* the run of letters and underscores at the front of that text
CallWord == SubSeq(CallText, 1, LeadingWord(CallText))

\* C10: a call that finds a letter or an underscore takes the longest run of
\* letters and underscores (a digit ends it) and nothing more; fn, let, true,
\* false, if, else and return give their keyword or boolean token, every other
\* run gives Identifier with exactly the run as its name.
C10_IdentifierScan ==
    (call.fn # "none" /\ CallWord # "")
    => /\ chars = SubSeq(CallText, Len(CallWord) + 1, Len(CallText))
       /\ CallWord = "fn" => call.value = Tok("Function")
       /\ CallWord = "let" => call.value = Tok("Let")
       /\ CallWord = "true" => call.value = TokBool(TRUE)
       /\ CallWord = "false" => call.value = TokBool(FALSE)
       /\ CallWord = "if" => call.value = Tok("If")
       /\ CallWord = "else" => call.value = Tok("Else")
       /\ CallWord = "return" => call.value = Tok("Return")
       /\ CallWord \notin {"fn", "let", "true", "false", "if", "else", "return"}
            => call.value = TokIdent(CallWord)

\* C10's cases: a keyword ended by a digit, after whitespace; and a run that
\* only begins with a keyword, which is an identifier
C10_Witness ==
    \/ /\ call.before = " if7"
       /\ call.value = Tok("If")
       /\ chars = "7"
    \/ /\ call.before = "let_x"
       /\ call.value = TokIdent("let_x")
       /\ chars = ""

\* reading a String's Debug form back: the text after the opening quote, up
\* to the closing one
RECURSIVE ReadQuoted(_, _)
ReadQuoted(text, read) ==
    IF text = "" THEN [ok |-> FALSE, str |-> read, rest |-> ""]
    ELSE IF Head(text) = "\"" THEN [ok |-> TRUE, str |-> read, rest |-> Tail(text)]
    ELSE IF Head(text) = "\\"
    THEN IF Len(text) < 2 THEN [ok |-> FALSE, str |-> read, rest |-> ""]
         ELSE ReadQuoted(Tail(Tail(text)), read \o Head(Tail(text)))
    ELSE ReadQuoted(Tail(text), read \o Head(text))

\* reading a Vec<String>'s Debug form back, from its first element on
RECURSIVE ReadElements(_, _)
ReadElements(text, read) ==
    IF text = "" \/ Head(text) # "\"" THEN [ok |-> FALSE, messages |-> read]
    ELSE With(ReadQuoted(Tail(text), ""), LAMBDA q :
         IF ~q.ok THEN [ok |-> FALSE, messages |-> read]
         ELSE IF q.rest = "]" THEN [ok |-> TRUE, messages |-> Append(read, q.str)]
         ELSE IF Len(q.rest) > 2 /\ SubSeq(q.rest, 1, 2) = ", "
         THEN ReadElements(SubSeq(q.rest, 3, Len(q.rest)), Append(read, q.str))
         ELSE [ok |-> FALSE, messages |-> read])

\* the messages an aggregated error carries: "Parser error: [" m1, m2, ... "]"
MessagesOf(error) ==
    LET open == "Parser error: ["
    IN  IF Len(error) > Len(open) /\ SubSeq(error, 1, Len(open)) = open
        THEN ReadElements(SubSeq(error, Len(open) + 1, Len(error)), <<>>)
        ELSE [ok |-> FALSE, messages |-> <<>>]

\* C2: parse_program returns Ok(program) exactly when no error was recorded;
\* otherwise it returns one error, which carries every recorded message in the
\* order recorded, and nothing else: no program comes with it.
C2_OkIffNoErrors ==
    pc = "done"
    => /\ result.kind \in {"Ok", "Err"}
       /\ (result.kind = "Ok") = (errors = <<>>)
       /\ result.kind = "Ok" => result = [kind |-> "Ok", program |-> program]
       /\ result.kind = "Err"
            => /\ DOMAIN result = {"kind", "error"}
               /\ MessagesOf(result.error) = [ok |-> TRUE, messages |-> errors]

\* C2's case: two errors recorded, and a statement parsed that is not returned
C2_Witness ==
    /\ pc = "done"
    /\ Len(errors) >= 2
    /\ program # <<>>
    /\ result.kind = "Err"
    /\ MessagesOf(result.error).messages = errors

StatementKeywords == {Tok("Let"), Tok("Return")}

\* the position of the first `;` among the tokens, 0 if there is none
FirstSemicolon(toks) ==
    IF \E k \in 1..Len(toks) : toks[k] = Tok("Semicolon")
    THEN CHOOSE k \in 1..Len(toks) :
            /\ toks[k] = Tok("Semicolon")
            /\ \A j \in 1..(k - 1) : toks[j] # Tok("Semicolon")
    ELSE 0

\* the tokens are statements `let <ident> = <tokens>;`, <tokens> without `;`
RECURSIVE IsLetSequence(_)
IsLetSequence(toks) ==
    \/ toks = <<>>
    \/ /\ Len(toks) >= 4
       /\ toks[1] = Tok("Let")
       /\ toks[2].type = "Ident"
       /\ toks[3] = Tok("Assign")
       /\ FirstSemicolon(toks) # 0
       /\ IsLetSequence(SubSeq(toks, FirstSemicolon(toks) + 1, Len(toks)))

\* the names those statements bind, in the order of the text
RECURSIVE LetNames(_)
LetNames(toks) ==
    IF toks = <<>> THEN <<>>
    ELSE <<toks[2].lit>> \o LetNames(SubSeq(toks, FirstSemicolon(toks) + 1, Len(toks)))

\* the tokens are statements `return <tokens>;`, <tokens> without `;`
RECURSIVE IsReturnSequence(_)
IsReturnSequence(toks) ==
    \/ toks = <<>>
    \/ /\ toks[1] = Tok("Return")
       /\ FirstSemicolon(toks) # 0
       /\ IsReturnSequence(SubSeq(toks, FirstSemicolon(toks) + 1, Len(toks)))

\* the number of `;` among the tokens
SemicolonCount(toks) == Cardinality({k \in 1..Len(toks) : toks[k] = Tok("Semicolon")})

\* C7: a text of N statements `let <ident> = <tokens>;`, <tokens> holding no
\* `;`, parses to exactly N statements, all LetBinding, that bind the N names
\* in the order of the text; a text of N statements `return <tokens>;` parses
\* to exactly N statements, all ReturnStatement.
C7_StatementCount ==
    pc = "done"
    => /\ IsLetSequence(TokensOf(input))
            => /\ result.kind = "Ok"
               /\ Len(result.program) = SemicolonCount(TokensOf(input))
               /\ \A i \in 1..Len(result.program) : result.program[i].node = "Let"
               /\ [i \in 1..Len(result.program) |-> result.program[i].ident.value]
                    = LetNames(TokensOf(input))
       /\ IsReturnSequence(TokensOf(input))
            => /\ result.kind = "Ok"
               /\ Len(result.program) = SemicolonCount(TokensOf(input))
               /\ \A i \in 1..Len(result.program) : result.program[i].node = "Return"

\* C7's case: two let statements, one with an expression and one with nothing
\* before its `;`, parsed
C7_Witness ==
    /\ pc = "done"
    /\ input = "let y = 5 + 1; let x = ;"
    /\ Len(result.program) = 2
    /\ result.program[1].ident.value = "y"
    /\ result.program[2].ident.value = "x"

\* C3: the value of a let or return statement is the expression parsed from
\* the tokens between its `=` (or its `return`) and its `;`.
C3_ValueIsParsed ==
    pc = "done"
    => \A h \in {"let x = ", "let y = ", "return "} : \A b \in StmtBodies :
            (input = h \o b \o ";" /\ ExpressionParses(b))
            => /\ result.kind = "Ok"
               /\ Len(result.program) = 1
               /\ result.program[1].value
                    = parse_expression(NewParser(b), Lowest).val

\* the tokens begin a let or return statement that has a value and that no `;`
\* ends: there is none before the text ends or before the next let or return
StartsUnterminated(toks) ==
    /\ \/ /\ Len(toks) >= 4
          /\ toks[1] = Tok("Let")
          /\ toks[2].type = "Ident"
          /\ toks[3] = Tok("Assign")
          /\ IsOperand(toks[4])
       \/ /\ Len(toks) >= 2
          /\ toks[1] = Tok("Return")
          /\ IsOperand(toks[2])
    /\ \A k \in 2..Len(toks) :
            toks[k] = Tok("Semicolon")
            => \E j \in 2..(k - 1) : toks[j] \in StatementKeywords

\* C4: a let or return statement that no `;` ends does not parse: an error is
\* recorded for it, and parse_program returns Err.
C4_TerminatorRequired ==
    (pc = "done" /\ StartsUnterminated(TokensOf(input))) => result.kind = "Err"

\* the body and the condition of the conditionals explored
Bodies == BlockBodies(MaxBlockStatements)

\* the input is a conditional with its braces matched, on this condition and
\* with a body of one statement or more
IsConditionalOn(cond) ==
    \E b \in Bodies \ {""} :
        \/ input = IfText(cond, b)
        \/ \E o \in Bodies : input = IfElseText(cond, b, o)

\* C5: a conditional `if (<cond>) { <body> }` with its braces matched parses,
\* to one statement holding a Conditional whose condition is <cond> as the
\* expression parser reads it: `5 < 10` prints as `(5 < 10)`.
C5_ConditionalParses ==
    pc = "done"
    => \A c \in CondConditions :
            IsConditionalOn(c)
            => /\ result.kind = "Ok"
               /\ result.program[1].node = "Expression"
               /\ result.program[1].value.node = "If"
               /\ result.program[1].value.condition
                    = parse_expression(NewParser(c), Lowest).val
               /\ c = "5 < 10"
                    => ExpressionDisplay(result.program[1].value.condition)
                         = "(5 < 10)"

\* the statements of a block's text, as the statement loop parses them
BlockOf(body) == StmtBlock(parse_program(body).program)

\* C6: the consequence of a conditional, and its alternative after `else`, is
\* the Block of all the statements between its braces, in order, and the
\* closing brace is consumed: the braces matched, nothing is left to read.
C6_BlockBodies ==
    pc = "done"
    => \A c \in CondConditions : \A b \in Bodies :
         /\ input = IfText(c, b)
              => /\ result.kind = "Ok"
                 /\ Len(result.program) = 1
                 /\ result.program[1].value.consequence = BlockOf(b)
                 /\ result.program[1].value.alternative = <<>>
                 /\ lexer.chars = ""
         /\ \A o \in Bodies :
              input = IfElseText(c, b, o)
              => /\ result.kind = "Ok"
                 /\ Len(result.program) = 1
                 /\ result.program[1].value.consequence = BlockOf(b)
                 /\ result.program[1].value.alternative = <<BlockOf(o)>>
                 /\ lexer.chars = ""

\* the length of the longest run of decimal digits the text begins with
LeadingDigits(text) ==
    CHOOSE k \in 0..Len(text) :
        /\ \A i \in 1..k : CharAt(text, i) \in CharsOf("0123456789")
        /\ k = Len(text) \/ CharAt(text, k + 1) \notin CharsOf("0123456789")

\* the run of digits at the front of the text a call was made on
CallDigits == SubSeq(CallText, 1, LeadingDigits(CallText))

\* the number of zeros before the first significant digit of the digits (the
\* last digit is always significant)
InsignificantZeros(digits) ==
    CHOOSE k \in 0..(Len(digits) - 1) :
        /\ \A i \in 1..k : CharAt(digits, i) = "0"
        /\ k = Len(digits) - 1 \/ CharAt(digits, k + 1) # "0"

\* the significant digits of the digits
Significant(digits) ==
    SubSeq(digits, InsignificantZeros(digits) + 1, Len(digits))

\* the number a text of at most 7 digits denotes
RECURSIVE NumberOf(_)
NumberOf(digits) ==
    IF digits = "" THEN 0
    ELSE 10 * NumberOf(Front(digits))
            + (CHOOSE d \in 0..9 :
                 CharAt("0123456789", d + 1) = CharAt(digits, Len(digits)))

\* 19 significant digits denote at most 2^63 - 1 = 9223372 036854 775807,
\* compared in groups of 7, 6 and 6 digits
AtMostI64Max(digits) ==
    LET high == NumberOf(SubSeq(digits, 1, 7))
        mid == NumberOf(SubSeq(digits, 8, 13))
        low == NumberOf(SubSeq(digits, 14, 19))
    IN  \/ high < 9223372
        \/ high = 9223372 /\ mid < 36854
        \/ high = 9223372 /\ mid = 36854 /\ low <= 775807

\* the digits denote a number of the signed 64-bit range
FitsI64(digits) ==
    \/ Len(Significant(digits)) < 19
    \/ Len(Significant(digits)) = 19 /\ AtMostI64Max(Significant(digits))

\* C11: a call that finds a digit takes the longest run of digits and nothing
\* more; it gives IntegerLiteral of the run's value when that value is at most
\* 2^63 - 1, and otherwise the one token Illegal, the lexer going on after the
\* run either way.
C11_IntegerRun ==
    (call.fn # "none" /\ CallDigits # "")
    => /\ chars = SubSeq(CallText, Len(CallDigits) + 1, Len(CallText))
       /\ FitsI64(CallDigits) => call.value = TokInt(Significant(CallDigits))
       /\ ~FitsI64(CallDigits) => call.value = Tok("Illegal")

\* C11's case: i64::MAX + 1 is the one token Illegal, the lexer left right
\* after the run
C11_Witness ==
    /\ call.before = " 9223372036854775808 7"
    /\ call.value = Tok("Illegal")
    /\ chars = " 7"

\* each statement's canonical form followed by a newline
RECURSIVE StatementLines(_)
StatementLines(statements) ==
    IF statements = <<>> THEN ""
    ELSE StatementDisplay(Head(statements)) \o "\n"
            \o StatementLines(Tail(statements))

\* the program of test_display_program
TestProgram ==
    <<StmtLet(Identifier("myVar"), ExprIntegerLiteral("5")),
      StmtLet(Identifier("anotherVar"), ExprIdentifier(Identifier("myVar"))),
      StmtReturn(ExprIdentifier(Identifier("anotherVar")))>>

\* C12: a printed Program is its statements in order, each statement's
\* canonical form followed by a newline; the program of test_display_program
\* prints as its three lines.
C12_ProgramLines ==
    (mode = "printer" /\ pc = "done")
    => /\ result.text = StatementLines(program)
       /\ program = TestProgram
            => result.text
                 = "let myVar = 5;\nlet anotherVar = myVar;\nreturn anotherVar;\n"

\* what the calls of the statement parsers, in order, make of a statement
\* text when the loop comes to its first token: the kind of the statement a
\* call returns, or the message of the call's failure.  After a failure the
\* next call starts at the first token the failed one did not take: the `5` of
\* `let 5;` and the `x` of `if x;` are parsed as expression statements, and
\* the `;` of `(x;` fails a second call.
CallsOn(unit) ==
    CASE unit = "x;" -> <<[failed |-> FALSE, is |-> "Expression"]>>
      [] unit = "let x = 5;" -> <<[failed |-> FALSE, is |-> "Let"]>>
      [] unit = "return x;" -> <<[failed |-> FALSE, is |-> "Return"]>>
      [] unit = ")" -> <<[failed |-> TRUE, is |-> "Unexpected token RParen"]>>
      [] unit = "let 5;" ->
            <<[failed |-> TRUE, is |-> "Expected identifier"],
              [failed |-> FALSE, is |-> "Expression"]>>
      [] unit = "let x 5;" ->
            <<[failed |-> TRUE, is |-> "Expected Assign, got Int(5)"],
              [failed |-> FALSE, is |-> "Expression"]>>
      [] unit = "(x;" ->
            <<[failed |-> TRUE, is |-> "Expected RParen, found Semicolon"],
              [failed |-> TRUE, is |-> "Unexpected token Semicolon"]>>
      [] unit = "if x;" ->
            <<[failed |-> TRUE, is |-> "Expected LParen, got Ident(\"x\")"],
              [failed |-> FALSE, is |-> "Expression"]>>

\* the text begins with this statement text and a space
BeginsWith(text, unit) ==
    /\ Len(text) > Len(unit)
    /\ SubSeq(text, 1, Len(unit) + 1) = unit \o " "

\* the text is a sequence of the statement texts, a space after each
RECURSIVE IsUnitsText(_)
IsUnitsText(text) ==
    \/ text = ""
    \/ \E u \in RecoveryUnits :
         /\ BeginsWith(text, u)
         /\ IsUnitsText(SubSeq(text, Len(u) + 2, Len(text)))

\* the statement texts of such a text (no text begins with two of them)
RECURSIVE UnitsOf(_)
UnitsOf(text) ==
    IF text = "" THEN <<>>
    ELSE LET u == CHOOSE u \in RecoveryUnits : BeginsWith(text, u)
         IN  <<u>> \o UnitsOf(SubSeq(text, Len(u) + 2, Len(text)))

\* the calls on a sequence of statement texts
RECURSIVE CallsOnAll(_)
CallsOnAll(units) ==
    IF units = <<>> THEN <<>> ELSE CallsOn(Head(units)) \o CallsOnAll(Tail(units))

\* the calls that failed (or that did not), in order
RECURSIVE Select(_, _)
Select(calls, failed) ==
    IF calls = <<>> THEN <<>>
    ELSE IF Head(calls).failed = failed
    THEN <<Head(calls).is>> \o Select(Tail(calls), failed)
    ELSE Select(Tail(calls), failed)

\* C13: a failing call of a statement parser does not end parse_program.  It
\* adds exactly one message, and the loop goes on at the first token the call
\* left, up to the end of the text: the statements after a failure are parsed,
\* and k failing calls give k messages, in order, in the error returned.
C13_ErrorRecovery ==
    (pc = "done" /\ IsUnitsText(input))
    => /\ errors = Select(CallsOnAll(UnitsOf(input)), TRUE)
       /\ [i \in 1..Len(program) |-> program[i].node]
            = Select(CallsOnAll(UnitsOf(input)), FALSE)
       /\ errors # <<>>
            => /\ result.kind = "Err"
               /\ MessagesOf(result.error) = [ok |-> TRUE, messages |-> errors]

\* C13's case: a failure, a statement parsed after it, and a later failure
\* recorded as well
C13_Witness ==
    /\ pc = "done"
    /\ input = "let x 5; return x; ) "
    /\ errors = <<"Expected Assign, got Int(5)", "Unexpected token RParen">>
    /\ Len(program) = 2
    /\ program[2].node = "Return"
    /\ result.kind = "Err"

\* the number of tokens the lexer has yet to yield from the text, whatever
\* end-of-input sentinels it yields between them
RECURSIVE CountTokens(_)
CountTokens(text) ==
    IF text = "" THEN 0
    ELSE With(next_token(text), LAMBDA r :
            (IF r.tok = Tok("EOF") THEN 0 ELSE 1) + CountTokens(r.chars))

\* the number of tokens the parser has yet to take: the one peek() holds, if
\* it holds one, and those of the text not read
TokensLeft(lx) ==
    (IF lx.peeked # <<>> /\ lx.peeked[1] # None THEN 1 ELSE 0) + CountTokens(lx.chars)

\* a turn of parse_program's loop takes at least one token
LoopTakesToken ==
    (mode = "parser" /\ pc = "loop" /\ pc' = "loop")
    => TokensLeft(lexer') < TokensLeft(lexer)

\* C14: on every sequence of tokens parse_program ends and returns Ok or Err,
\* and never panics: every turn of its loop takes at least one token, whether
\* the statement parser called succeeds or fails, and no token where one is
\* needed is an error recorded, never a panic.
C14_TerminatesWithoutPanic ==
    /\ [](pc # "panicked")
    /\ [][LoopTakesToken]_vars
    /\ <>(pc = "done")
    /\ [](pc = "done" => result.kind \in {"Ok", "Err"})

\* C14's case: the text ends after the operator parse_infix_expression takes,
\* where an operand is needed, and parse_program returns that as an Err
C14_Witness ==
    /\ pc = "done"
    /\ input = "x + "
    /\ errors = <<"Unexpected EOF">>
    /\ result.kind = "Err"

\* the expression is made of identifiers, integer and boolean literals, prefix
\* and infix nodes only
RECURSIVE IsOperatorTree(_)
IsOperatorTree(e) ==
    CASE e.node \in {"Identifier", "IntegerLiteral", "Boolean"} -> TRUE
      [] e.node = "Prefix" -> IsOperatorTree(e.right)
      [] e.node = "Infix" -> IsOperatorTree(e.left) /\ IsOperatorTree(e.right)
      [] OTHER -> FALSE

\* parse_program returned a program of one ExpressionStatement of such an
\* expression
ParsedOneOperatorTree ==
    /\ pc = "done"
    /\ result.kind = "Ok"
    /\ Len(result.program) = 1
    /\ result.program[1].node = "Expression"
    /\ IsOperatorTree(result.program[1].value)

\* C15: when a text parses to one ExpressionStatement of identifiers, literals,
\* prefix and infix nodes, parsing what the program prints as gives the very
\* same program, which therefore prints the same again.
C15_ParsePrintStable ==
    ParsedOneOperatorTree
    => /\ parse_program(ProgramDisplay(result.program)) = result
       /\ ProgramDisplay(parse_program(ProgramDisplay(result.program)).program)
            = ProgramDisplay(result.program)

\* C15's case: a group, prefix operators and a numeral with zeros, whose print
\* differs from the text and parses to the same program
C15_Witness ==
    /\ ParsedOneOperatorTree
    /\ input = "-(a * 5) - 007;"
    /\ ProgramDisplay(result.program) = "((-(a * 5)) - 7)"
    /\ parse_program("((-(a * 5)) - 7)") = result

====
